---- MODULE Spec2Model ----
(***************************************************************************)
(* Model of mcp_pkm_logseq/to_markdown.py: the conversion of a flat list   *)
(* of Logseq block records into nested Markdown.                           *)
(*                                                                         *)
(* Text is modelled structurally.  A Python string is the sequence of its  *)
(* lines (what str.split("\n") returns), a line is a sequence of tokens    *)
(* (atomic pieces of text).  The empty string is one empty line, <<<<>>>>. *)
(* "\n".join(parts) is then the concatenation of the parts' line lists.    *)
(* A dict is the sequence of its values in insertion order.                *)
(***************************************************************************)
EXTENDS Integers, Sequences, FiniteSets, TLC

VARIABLES
    \* one level of reorganize_blocks, statement by statement
    lv_blocks,            \* the mapping given to reorganize_blocks
    lv_pc,                \* position in reorganize_blocks / chain_blocks
    children,             \* find_direct_children's result
    first_block,          \* find_first_block's result (None when absent)
    sorted_children,      \* chain_blocks: placed so far
    remaining_children,   \* chain_blocks: not placed yet
    current_id,           \* chain_blocks: id of the last placed block
    iterations,           \* passes through the while loop of chain_blocks
    examined,             \* the children compared against current_id in the
                          \* loop, each with whether it was placed already
    \* reorganize_blocks and format_blocks called on a mapping
    tr_blocks,            \* the mapping
    tr_pc,                \* "start", "reorganized", "formatted" or "raised"
    tree,                 \* reorganize_blocks' result
    markdown,             \* format_blocks' result
    \* build_markdown called twice on one page and one mapping of Block objects
    bm_blocks,            \* the mapping; the objects keep their children fields
    bm_pc,                \* position in build_markdown
    bm_properties,        \* extract_properties_func's property lines
    bm_remaining,         \* extract_properties_func's remaining_blocks
    bm_roots,             \* reorganize_blocks' result
    bm_documents,         \* the strings the calls returned so far
    \* page_to_markdown called once more on the same batch
    first_output,         \* <<what the first call returned>>, <<>> during it
    \* one call of request(), i.e. of the wrapper with_retry puts around
    \* _request_with_retry
    rq_pc,                \* position in the wrapper
    api_key,              \* whether the environment holds an API token
    attempt,              \* the wrapper's attempt counter
    last_exception,       \* the wrapper's last_exception (None at first)
    rq_posts,             \* what post() did at each attempt so far
    rq_sleeps,            \* the delays handed to time.sleep so far
    rq_result,            \* what the call returned or raised
    \* one call of get_personal_notes
    gp_pc,                \* position in get_personal_notes
    topics,               \* the topics argument
    from_date,            \* the from_date argument (None when not given)
    to_date,              \* the to_date argument (None when not given)
    gp_queries,           \* the queries handed to req so far, with their results
    rslt,                 \* the local rslt
    gp_result,            \* what the call returned or raised
    \* one call of page_to_markdown or of clean_response
    response,             \* the batch of raw block records
    entry,                \* the function called: "page_to_markdown" or "clean_response"
    pc,                   \* position in the call
    pages,                \* clean_response's pages
    blocks,               \* clean_response's blocks
    sorted_pages,         \* pages in output order (several pages)
    results,              \* the page documents built so far (several pages)
    output,               \* the string page_to_markdown returns
    error                 \* the exception the call ended with

lvVars == <<lv_blocks, lv_pc, children, first_block, sorted_children,
            remaining_children, current_id, iterations, examined>>

trVars == <<tr_blocks, tr_pc, tree, markdown>>

pgVars == <<response, entry, pc, pages, blocks, sorted_pages, results, output,
            error>>

bmVars == <<bm_blocks, bm_pc, bm_properties, bm_remaining, bm_roots,
            bm_documents>>

rqVars == <<rq_pc, api_key, attempt, last_exception, rq_posts, rq_sleeps,
            rq_result>>

gpVars == <<gp_pc, topics, from_date, to_date, gp_queries, rslt, gp_result>>

vars == <<lvVars, trVars, pgVars, bmVars, first_output, rqVars, gpVars>>

-----------------------------------------------------------------------------
(* Bounds and identifiers *)

\* most blocks in the mapping of the level-by-level specification
MaxSiblings == 3

\* most blocks in the mapping given to reorganize_blocks as a whole
MaxBlocks == 3

\* most records in a generated batch
MaxRecords == 3

\* most Block objects in a mapping given to build_markdown
MaxBuildBlocks == 3

\* the root (page) id the tests hand to reorganize_blocks
RootId == 0

\* an id no block and no page carries (the tests' "non-existent parent")
Dangling == 999

None == [none |-> TRUE]

-----------------------------------------------------------------------------
(* Sequence helpers *)

Range(s) == {s[i] : i \in DOMAIN s}

\* list.pop(i)
RemoveAt(s, i) == [j \in 1..(Len(s) - 1) |-> IF j < i THEN s[j] ELSE s[j + 1]]

\* index of the first element satisfying Test, 0 when there is none
FirstIndex(s, Test(_)) ==
    IF \E i \in DOMAIN s : Test(s[i])
    THEN CHOOSE i \in DOMAIN s : Test(s[i]) /\ \A j \in 1..(i - 1) : ~Test(s[j])
    ELSE 0

Ids(s) == [i \in DOMAIN s |-> s[i].id]

\* number of positions of s holding x
Count(s, x) == Cardinality({i \in DOMAIN s : s[i] = x})

-----------------------------------------------------------------------------
(* Data model *)

\* Block(id, content, parent_id, left_id, page_id, properties, is_page_property)
Block(id, content, parent, left, page, properties, is_page_property) ==
    [id |-> id, content |-> content, parent_id |-> parent, left_id |-> left,
     page_id |-> page, properties |-> properties,
     is_page_property |-> is_page_property, children |-> <<>>]

\* the text of an ordinary one-line block
PlainContent(id) == << <<"block", ToString(id)>> >>

-----------------------------------------------------------------------------
(* Tree builder *)

\* faulty variant: blocks whose parent is unknown are adopted by the root
find_direct_children_adopting(block_map, parent) ==
    SelectSeq(block_map,
              LAMBDA b : \/ b.parent_id = parent
                         \/ /\ parent = RootId
                            /\ b.parent_id \notin Range(Ids(block_map)))

find_direct_children(block_map, parent) ==
    SelectSeq(block_map, LAMBDA b : b.parent_id = parent)

\* faulty variant: the first child is taken for the head whatever its left_id
find_first_block_any(kids, parent) == kids[1]

find_first_block(kids, parent) ==
    LET i == FirstIndex(kids, LAMBDA c : c.left_id = parent)
    IN  IF i = 0 THEN None ELSE kids[i]

\* faulty variant: the head stays among the children still to place
remaining_after_first_keeps_head(kids, first) == kids

\* line 342: the children still to place
remaining_after_first(kids, first) ==
    SelectSeq(kids, LAMBDA c : c.id # first.id)

\* lines 347-348: position of the first unplaced child whose left_id is
\* current, 0 when the for loop ends without a match
next_index(remaining, current) ==
    FirstIndex(remaining, LAMBDA c : c.left_id = current)

\* faulty variant: the placed child is not taken out of remaining_children
pop_placed_forgotten(remaining, i) == remaining

\* line 351: remaining_children.pop(i)
pop_placed(remaining, i) == RemoveAt(remaining, i)

\* faulty variant: the unplaced children are added last one first
extend_with_remaining_reversed(sorted, remaining) ==
    sorted \o [i \in DOMAIN remaining |-> remaining[Len(remaining) + 1 - i]]

\* line 357: sorted_children.extend(remaining_children)
extend_with_remaining(sorted, remaining) == sorted \o remaining

\* the while loop of chain_blocks
RECURSIVE ChainLoop(_, _, _)
ChainLoop(sorted, current, remaining) ==
    IF remaining = <<>> THEN sorted
    ELSE LET i == next_index(remaining, current)
         IN  IF i = 0 THEN extend_with_remaining(sorted, remaining)
             ELSE ChainLoop(Append(sorted, remaining[i]), remaining[i].id,
                            pop_placed(remaining, i))

chain_blocks(kids, first) ==
    ChainLoop(<<first>>, first.id, remaining_after_first(kids, first))

\* lines 380-388: the children of one parent in output order
sort_children(kids, parent) ==
    LET first == find_first_block(kids, parent)
    IN  IF first # None THEN chain_blocks(kids, first) ELSE kids

\* A call either returns a value or ends with an exception.
Return(v) == [raised |-> FALSE, value |-> v]
Raise(e) == [raised |-> TRUE, error |-> e]

\* faulty variant: the new children are added to the ones the object has
assign_children_extending(old, new) == old \o new

\* line 392, child.children = ...: the field is overwritten
assign_children(old, new) == new

\* reorganize_blocks with the call depth made explicit.  The interpreter
\* ends a descent that never reaches a leaf with RecursionError; a descent
\* through n blocks without repetition is at most n + 1 calls deep, so a call
\* deeper than that is one that never ends.
RECURSIVE Reorganize(_, _, _)
Reorganize(block_map, parent, depth) ==
    IF depth > Len(block_map) + 1 THEN Raise("RecursionError")
    ELSE LET kids == find_direct_children(block_map, parent)
         IN  IF kids = <<>> THEN Return(<<>>)
             ELSE LET sorted == sort_children(kids, parent)
                      sub == [i \in DOMAIN sorted |->
                                 Reorganize(block_map, sorted[i].id, depth + 1)]
                  IN  IF \E i \in DOMAIN sorted : sub[i].raised
                      THEN Raise("RecursionError")
                      ELSE Return([i \in DOMAIN sorted |->
                                     [sorted[i] EXCEPT !.children =
                                         assign_children(sorted[i].children,
                                                         sub[i].value)]])

reorganize_blocks(block_map, parent) == Reorganize(block_map, parent, 1)

\* the Block objects of a tree, the nested ones included
RECURSIVE tree_objects(_)
tree_objects(nodes) ==
    IF nodes = <<>> THEN <<>>
    ELSE <<Head(nodes)>> \o tree_objects(Head(nodes).children)
         \o tree_objects(Tail(nodes))

\* the mapping after reorganize_blocks returned nodes: the objects placed in
\* the tree carry the children assigned to them, the others are as before
objects_after(block_map, nodes) ==
    [i \in DOMAIN block_map |->
        LET placed == {n \in Range(tree_objects(nodes)) : n.id = block_map[i].id}
        IN  IF placed = {} THEN block_map[i] ELSE CHOOSE n \in placed : TRUE]

-----------------------------------------------------------------------------
(* Text *)

EmptyString == << <<>> >>

\* "\n".join(parts): parts is a sequence of strings
RECURSIVE JoinLines(_)
JoinLines(parts) ==
    IF parts = <<>> THEN EmptyString
    ELSE IF Len(parts) = 1 THEN parts[1]
    ELSE parts[1] \o JoinLines(Tail(parts))

\* "\n\n".join(parts)
RECURSIVE JoinParagraphs(_)
JoinParagraphs(parts) ==
    IF parts = <<>> THEN EmptyString
    ELSE IF Len(parts) = 1 THEN parts[1]
    ELSE parts[1] \o EmptyString \o JoinParagraphs(Tail(parts))

\* sep.join(items) within one line: items is a sequence of token sequences
RECURSIVE JoinTokens(_, _)
JoinTokens(items, sep) ==
    IF items = <<>> THEN <<>>
    ELSE IF Len(items) = 1 THEN items[1]
    ELSE items[1] \o <<sep>> \o JoinTokens(Tail(items), sep)

\* "  " * level
Indent(level) == [i \in 1..level |-> "  "]

\* the token that stands for the code fence marker (three backquotes)
Fence == "<fence>"

\* the fence marker occurs somewhere in the content (line 443)
HasFence(content) == \E i \in DOMAIN content : Fence \in Range(content[i])

-----------------------------------------------------------------------------
(* Property extractor *)

\* A property value is a list of strings or one string.
ListValue(items) == [is_list |-> TRUE, items |-> items]
StrValue(v) == [is_list |-> FALSE, items |-> <<v>>]

\* faulty variant: the elements of a list value are not separated
format_property_default_unseparated(key, value) ==
    <<key, ":: ">> \o value.items

\* format_property_default: one line, "key:: value"
format_property_default(key, value) ==
    <<key, ":: ">> \o
    (IF value.is_list
     THEN JoinTokens([i \in DOMAIN value.items |-> <<value.items[i]>>], ", ")
     ELSE <<value.items[1]>>)

\* faulty variant: every block that carries properties is matched
default_property_filter_any(block) == block.properties # <<>>

\* the default property_filter: block.is_page_property and block.properties
default_property_filter(block) ==
    block.is_page_property /\ block.properties # <<>>

\* the lines one matched block contributes, lines 271-273
property_lines_of(block) ==
    [k \in DOMAIN block.properties |->
        format_property_default(block.properties[k][1], block.properties[k][2])]

\* extract_properties_func with the default arguments (remove_extracted = True)
RECURSIVE ExtractLoop(_, _, _)
ExtractLoop(block_map, properties, remaining_blocks) ==
    IF block_map = <<>> THEN <<properties, remaining_blocks>>
    ELSE LET block == Head(block_map)
         IN  IF default_property_filter(block)
             THEN ExtractLoop(Tail(block_map),
                              properties \o property_lines_of(block),
                              remaining_blocks)
             ELSE ExtractLoop(Tail(block_map), properties,
                              Append(remaining_blocks, block))

extract_properties_func(block_map) == ExtractLoop(block_map, <<>>, <<>>)

-----------------------------------------------------------------------------
(* Renderer *)

\* format_block_properties: one line, or None
format_block_properties(properties, indent) ==
    IF properties = <<>> THEN None
    ELSE [line |-> indent \o <<"properties: ">> \o
                   JoinTokens([k \in DOMAIN properties |->
                                  format_property_default(properties[k][1],
                                                          properties[k][2])],
                              ", ")]

\* faulty variant: the continuation lines of a code block get the bullet's indent only
content_lines_flat(content, indent) ==
    IF HasFence(content)
    THEN << indent \o <<"- ">> \o content[1] >>
         \o [i \in 1..(Len(content) - 1) |-> indent \o content[i + 1]]
    ELSE << indent \o <<"- ">> \o content[1] >> \o Tail(content)

\* lines 443-450: the lines of the block's own content
content_lines(content, indent) ==
    IF HasFence(content)
    THEN << indent \o <<"- ">> \o content[1] >>
         \o [i \in 1..(Len(content) - 2) |-> indent \o <<"  ">> \o content[i + 1]]
         \o << indent \o <<"  ">> \o content[Len(content)] >>
    ELSE << indent \o <<"- ">> \o content[1] >> \o Tail(content)

\* faulty variant: the children are written before the block itself
RECURSIVE format_block_children_first(_, _)
format_block_children_first(block, level) ==
    LET indent == Indent(level)
        props == format_block_properties(block.properties, Indent(level + 1))
    IN  JoinLines(
            [i \in DOMAIN block.children |->
                format_block_children_first(block.children[i], level + 1)]
            \o <<content_lines(block.content, indent)>>
            \o (IF props = None THEN <<>> ELSE << <<props.line>> >>))

\* format_block: the block's own lines, then its children one level deeper
RECURSIVE format_block(_, _)
format_block(block, level) ==
    LET indent == Indent(level)
        props == format_block_properties(block.properties, Indent(level + 1))
    IN  JoinLines(
            <<content_lines(block.content, indent)>>
            \o (IF props = None THEN <<>> ELSE << <<props.line>> >>)
            \o [i \in DOMAIN block.children |->
                   format_block(block.children[i], level + 1)])

format_blocks(roots) ==
    IF roots = <<>> THEN EmptyString
    ELSE JoinLines([i \in DOMAIN roots |-> format_block(roots[i], 0)])
         \o EmptyString

\* faulty variant: the section is written also when there is no property line
properties_section_always(properties) ==
    << << <<"properties:">> >> >>
    \o [i \in DOMAIN properties |-> << <<"- ">> \o properties[i] >>]
    \o <<EmptyString>>

\* lines 513-517: the properties section, as the strings appended to result
properties_section(properties) ==
    IF properties = <<>> THEN <<>>
    ELSE << << <<"properties:">> >> >>
         \o [i \in DOMAIN properties |-> << <<"- ">> \o properties[i] >>]
         \o <<EmptyString>>

\* build_markdown with the default property_filter and format_property
build_markdown(page, block_map) ==
    LET extracted == extract_properties_func(block_map)
        properties == extracted[1]
        remaining_blocks == extracted[2]
        reorganized == reorganize_blocks(remaining_blocks, page.id)
    IN  IF reorganized.raised THEN reorganized
        ELSE LET block_markdown == format_blocks(reorganized.value)
             IN  Return(JoinLines(
                     << << <<"# ", page.original_name>> >>, EmptyString >>
                     \o properties_section(properties)
                     \o (IF block_markdown # EmptyString
                         THEN <<block_markdown>> ELSE <<>>)))

-----------------------------------------------------------------------------
(* Normalizer *)

Page(id, name, original_name) ==
    [id |-> id, name |-> name, original_name |-> original_name]

HasKey(d, k) == k \in DOMAIN d

\* create_page_from_block_data: a missing key ends the call with KeyError
create_page_from_block_data(block_data) ==
    IF /\ HasKey(block_data, "page")
       /\ HasKey(block_data.page, "id")
       /\ HasKey(block_data.page, "name")
       /\ HasKey(block_data.page, "originalName")
    THEN Return(Page(block_data.page.id, block_data.page.name,
                     block_data.page.originalName))
    ELSE Raise("KeyError")

\* faulty variant: a record without "left" or "content" gets a default instead
create_block_from_data_lenient(block_data) ==
    IF /\ HasKey(block_data, "page") /\ HasKey(block_data.page, "id")
       /\ HasKey(block_data, "id")
       /\ HasKey(block_data, "parent") /\ HasKey(block_data.parent, "id")
    THEN [raised |-> FALSE,
          value |-> [id |-> block_data.id,
                     content |-> IF HasKey(block_data, "content")
                                 THEN block_data.content ELSE << <<>> >>,
                     parent_id |-> block_data.parent.id,
                     left_id |-> IF HasKey(block_data, "left")
                                    /\ HasKey(block_data.left, "id")
                                 THEN block_data.left.id
                                 ELSE block_data.parent.id,
                     page_id |-> block_data.page.id,
                     properties |-> IF HasKey(block_data, "properties")
                                    THEN block_data.properties ELSE <<>>,
                     is_page_property |-> IF HasKey(block_data, "preBlock")
                                          THEN block_data.preBlock ELSE FALSE,
                     children |-> <<>>]]
    ELSE [raised |-> TRUE, error |-> "KeyError"]

\* create_block_from_data; "properties" and "preBlock?" are optional
create_block_from_data(block_data) ==
    IF /\ HasKey(block_data, "page") /\ HasKey(block_data.page, "id")
       /\ HasKey(block_data, "id")
       /\ HasKey(block_data, "content")
       /\ HasKey(block_data, "parent") /\ HasKey(block_data.parent, "id")
       /\ HasKey(block_data, "left") /\ HasKey(block_data.left, "id")
    THEN Return(Block(block_data.id, block_data.content, block_data.parent.id,
                      block_data.left.id, block_data.page.id,
                      IF HasKey(block_data, "properties")
                      THEN block_data.properties ELSE <<>>,
                      IF HasKey(block_data, "preBlock")
                      THEN block_data.preBlock ELSE FALSE))
    ELSE Raise("KeyError")

\* d[item.id] = item on a dict kept as the sequence of its values: a key
\* already present keeps its place and takes the new value
DictPut(d, item) ==
    IF \E k \in DOMAIN d : d[k].id = item.id
    THEN [k \in DOMAIN d |-> IF d[k].id = item.id THEN item ELSE d[k]]
    ELSE Append(d, item)

\* faulty variant: a later record of a page replaces the Page
put_if_absent_overwriting(pages_dict, page) == DictPut(pages_dict, page)

\* lines 217-218: a page id already present keeps its Page
put_if_absent(pages_dict, page) ==
    IF \E k \in DOMAIN pages_dict : pages_dict[k].id = page.id
    THEN pages_dict ELSE Append(pages_dict, page)

\* lines 215-218: the first Page seen for each page id
RECURSIVE PagesDict(_, _)
PagesDict(resp, pages_dict) ==
    IF resp = <<>> THEN pages_dict
    ELSE LET page == create_page_from_block_data(Head(resp)).value
         IN  PagesDict(Tail(resp), put_if_absent(pages_dict, page))

\* lines 222-225
RECURSIVE BlocksDict(_, _)
BlocksDict(resp, block_map) ==
    IF resp = <<>> THEN block_map
    ELSE BlocksDict(Tail(resp),
                    DictPut(block_map, create_block_from_data(Head(resp)).value))

\* track_page_order: the page ids in order of first appearance
RECURSIVE TrackLoop(_, _)
TrackLoop(resp, seen) ==
    IF resp = <<>> THEN seen
    ELSE TrackLoop(Tail(resp),
                   IF Head(resp).page.id \in Range(seen) THEN seen
                   ELSE Append(seen, Head(resp).page.id))

track_page_order(resp) == TrackLoop(resp, <<>>)

clean_response(resp) ==
    IF resp = <<>> THEN Raise("IndexError")
    ELSE IF \E i \in DOMAIN resp :
                create_page_from_block_data(resp[i]).raised
    THEN Raise("KeyError")
    ELSE IF \E i \in DOMAIN resp :
                create_block_from_data(resp[i]).raised
    THEN Raise("KeyError")
    ELSE LET pages_dict == PagesDict(resp, <<>>)
             block_map == BlocksDict(resp, <<>>)
             seen_page_ids == track_page_order(resp)
         IN  Return([pages |->
                        [i \in DOMAIN seen_page_ids |->
                            LET k == CHOOSE k \in DOMAIN pages_dict :
                                        pages_dict[k].id = seen_page_ids[i]
                            IN  pages_dict[k]],
                     blocks |-> block_map])

-----------------------------------------------------------------------------
(* Facade *)

\* faulty variant: the pages stay in order of first appearance
sort_pages_as_given(page_list) == page_list

\* sorted(pages, key=lambda p: p.id, reverse=True): stable, largest id first
RECURSIVE sort_pages(_)
sort_pages(page_list) ==
    IF page_list = <<>> THEN <<>>
    ELSE LET i == FirstIndex(page_list,
                     LAMBDA p : \A q \in Range(page_list) : q.id <= p.id)
         IN  <<page_list[i]>> \o sort_pages(RemoveAt(page_list, i))

\* faulty variant: the empty batch is not special-cased
is_empty_response_never(resp) == FALSE

\* line 96: not resp
is_empty_response(resp) == resp = <<>>

\* faulty variant: every page is given all the blocks
filter_page_blocks_none(block_map, page) == block_map

\* faulty variant: a page is given only the blocks that hang under the page
filter_page_blocks_top_level(block_map, page) ==
    SelectSeq(block_map, LAMBDA b : b.page_id = page.id /\ b.parent_id = page.id)

\* lines 119-122: the blocks of one page
filter_page_blocks(block_map, page) ==
    SelectSeq(block_map, LAMBDA b : b.page_id = page.id)

\* page_to_markdown as a function of the batch
page_to_markdown(resp) ==
    IF is_empty_response(resp) THEN Return(EmptyString)
    ELSE LET cleaned == clean_response(resp)
         IN  IF cleaned.raised THEN cleaned
             ELSE LET page_list == cleaned.value.pages
                      block_map == cleaned.value.blocks
                  IN  IF Len(page_list) = 1
                      THEN build_markdown(page_list[1], block_map)
                      ELSE LET sorted == sort_pages(page_list)
                               converted ==
                                   [i \in DOMAIN sorted |->
                                       build_markdown(sorted[i],
                                           filter_page_blocks(block_map, sorted[i]))]
                           IN  IF \E i \in DOMAIN sorted : converted[i].raised
                               THEN Raise("RecursionError")
                               ELSE Return(JoinParagraphs(
                                        [i \in DOMAIN sorted |-> converted[i].value]))

-----------------------------------------------------------------------------
(* reorganize_blocks, one level, statement by statement *)

\* Block ids are 1..n in mapping order.  Every block is a child of the
\* root or of nothing known, and its left link is the root, any block
\* (itself included) or nothing known.
LevelInit ==
    /\ \E n \in 0..MaxSiblings :
          \E f \in [1..n -> {RootId, Dangling}
                            \X ({RootId, Dangling} \cup (1..n))] :
             lv_blocks = [i \in 1..n |->
                 Block(i, PlainContent(i), f[i][1], f[i][2], RootId, <<>>, FALSE)]
    /\ lv_pc = "find_direct_children"
    /\ children = <<>>
    /\ first_block = None
    /\ sorted_children = <<>>
    /\ remaining_children = <<>>
    /\ current_id = RootId
    /\ iterations = 0
    /\ examined = <<>>

\* line 348 evaluated for the children seen: which child, and whether that
\* child is in sorted_children already
Examine(seen, placed) ==
    [k \in DOMAIN seen |->
        [id |-> seen[k].id, placed |-> seen[k].id \in Range(Ids(placed))]]

\* lines 375-378
FindDirectChildren ==
    /\ lv_pc = "find_direct_children"
    /\ children' = find_direct_children(lv_blocks, RootId)
    /\ lv_pc' = IF children' = <<>> THEN "return" ELSE "find_first_block"
    /\ UNCHANGED <<lv_blocks, first_block, sorted_children, remaining_children,
                   current_id, iterations, examined>>
    /\ UNCHANGED <<trVars, pgVars, bmVars, first_output, rqVars, gpVars>>

\* lines 381-388: without a head the children keep their original order
FindFirstBlock ==
    /\ lv_pc = "find_first_block"
    /\ first_block' = find_first_block(children, RootId)
    /\ IF first_block' = None
       THEN /\ sorted_children' = children
            /\ lv_pc' = "return"
       ELSE /\ sorted_children' = sorted_children
            /\ lv_pc' = "chain_init"
    /\ UNCHANGED <<lv_blocks, children, remaining_children, current_id,
                   iterations, examined>>
    /\ UNCHANGED <<trVars, pgVars, bmVars, first_output, rqVars, gpVars>>

\* lines 340-342
ChainInit ==
    /\ lv_pc = "chain_init"
    /\ sorted_children' = <<first_block>>
    /\ current_id' = first_block.id
    /\ remaining_children' = remaining_after_first(children, first_block)
    /\ lv_pc' = "while"
    /\ UNCHANGED <<lv_blocks, children, first_block, iterations, examined>>
    /\ UNCHANGED <<trVars, pgVars, bmVars, first_output, rqVars, gpVars>>

\* lines 345-353: one pass of the loop that finds the next block
ChainStepFound ==
    /\ lv_pc = "while"
    /\ remaining_children # <<>>
    /\ LET i == next_index(remaining_children, current_id)
       IN  /\ i # 0
           /\ sorted_children' = Append(sorted_children, remaining_children[i])
           /\ current_id' = remaining_children[i].id
           /\ remaining_children' = pop_placed(remaining_children, i)
           /\ examined' = examined \o Examine(SubSeq(remaining_children, 1, i),
                                               sorted_children)
    /\ iterations' = iterations + 1
    /\ UNCHANGED <<lv_blocks, lv_pc, children, first_block>>
    /\ UNCHANGED <<trVars, pgVars, bmVars, first_output, rqVars, gpVars>>

\* lines 345-348, 356-358: one pass that finds nothing, the chain is broken
ChainStepBroken ==
    /\ lv_pc = "while"
    /\ remaining_children # <<>>
    /\ next_index(remaining_children, current_id) = 0
    /\ sorted_children' = extend_with_remaining(sorted_children, remaining_children)
    /\ examined' = examined \o Examine(remaining_children, sorted_children)
    /\ iterations' = iterations + 1
    /\ lv_pc' = "return"
    /\ UNCHANGED <<lv_blocks, children, first_block, remaining_children, current_id>>
    /\ UNCHANGED <<trVars, pgVars, bmVars, first_output, rqVars, gpVars>>

\* line 345 false, line 360
ChainDone ==
    /\ lv_pc = "while"
    /\ remaining_children = <<>>
    /\ lv_pc' = "return"
    /\ UNCHANGED <<lv_blocks, children, first_block, sorted_children,
                   remaining_children, current_id, iterations, examined>>
    /\ UNCHANGED <<trVars, pgVars, bmVars, first_output, rqVars, gpVars>>

LevelNext ==
    \/ FindDirectChildren
    \/ FindFirstBlock
    \/ ChainInit
    \/ ChainStepFound
    \/ ChainStepBroken
    \/ ChainDone

-----------------------------------------------------------------------------
(* reorganize_blocks and format_blocks on a whole mapping *)

\* Block ids are 1..n in mapping order, apart from the root id and from
\* Dangling.  A parent is the root, a block (the block itself included) or
\* nothing known; a left link is the parent (choice 0, the block heads its
\* chain) or one of the other blocks (choice k, the k-th of them).
OtherId(i, k) == IF k < i THEN k ELSE k + 1

TreeBlock(i, parent, k) ==
    Block(i, PlainContent(i), parent,
          IF k = 0 THEN parent ELSE OtherId(i, k), RootId, <<>>, FALSE)

TreeInit ==
    /\ \E n \in 0..MaxBlocks :
          \E f \in [1..n -> ({RootId, Dangling} \cup (1..n)) \X (0..(n - 1))] :
             tr_blocks = [i \in 1..n |-> TreeBlock(i, f[i][1], f[i][2])]
    /\ tr_pc = "start"
    /\ tree = <<>>
    /\ markdown = <<>>

\* reorganized = reorganize_blocks(blocks, 0)
ReorganizeBlocks ==
    /\ tr_pc = "start"
    /\ LET r == reorganize_blocks(tr_blocks, RootId)
       IN  IF r.raised
           THEN /\ tr_pc' = "raised"
                /\ tree' = tree
           ELSE /\ tr_pc' = "reorganized"
                /\ tree' = r.value
    /\ UNCHANGED <<tr_blocks, markdown>>
    /\ UNCHANGED <<lvVars, pgVars, bmVars, first_output, rqVars, gpVars>>

\* result = format_blocks(reorganized)
FormatBlocks ==
    /\ tr_pc = "reorganized"
    /\ markdown' = format_blocks(tree)
    /\ tr_pc' = "formatted"
    /\ UNCHANGED <<tr_blocks, tree>>
    /\ UNCHANGED <<lvVars, pgVars, bmVars, first_output, rqVars, gpVars>>

TreeNext ==
    \/ ReorganizeBlocks
    \/ FormatBlocks

-----------------------------------------------------------------------------
(* Batches *)

RawBlock(id, content, parent, left, page, properties) ==
    [content |-> content, id |-> id, parent |-> [id |-> parent],
     left |-> [id |-> left], page |-> page, properties |-> properties]

\* a record of the page's property block: "preBlock?": True
RawPreBlock(id, content, parent, left, page, properties) ==
    [content |-> content, id |-> id, parent |-> [id |-> parent],
     left |-> [id |-> left], page |-> page, properties |-> properties,
     preBlock |-> TRUE]

\* the fixture example_response of to_markdown_test.py
ExamplePage ==
    [id |-> 8644, name |-> "mcp pkm logseq", originalName |-> "MCP PKM Logseq"]

ExampleResponse ==
    << RawBlock(8651, << <<Fence, "python">>, <<"print(\"This is code\")">>,
                         <<Fence>> >>,
                8647, 8650, ExamplePage, <<>>),
       RawBlock(8650, << <<"Sub-block with code">> >>,
                8647, 8647, ExamplePage, <<>>),
       RawPreBlock(8648, << <<"alias:: mcp_logseq_start">>,
                            <<"author:: [[Ronie Uliana]]">> >>,
                   8644, 8644, ExamplePage,
                   << <<"alias", ListValue(<<"mcp_logseq_start">>)>>,
                      <<"author", ListValue(<<"Ronie Uliana">>)>> >>),
       RawBlock(8647, << <<"Testing what else do we have here.">> >>,
                8644, 8645, ExamplePage, <<>>),
       RawBlock(8645, << <<"This is Ronie's personal and profession Logseq.">> >>,
                8644, 8648, ExamplePage, <<>>) >>

\* the fixture pages_sorted_by_id_response of to_markdown_test.py
FixturePage(id, name, original_name) ==
    [id |-> id, name |-> name, originalName |-> original_name]

PagesSortedByIdResponse ==
    << RawBlock(1001, << <<"Block from page with id 1000">> >>, 1000, 1000,
                FixturePage(1000, "low-id-page", "Low ID Page"), <<>>),
       RawBlock(2001, << <<"Block from page with id 2000">> >>, 2000, 2000,
                FixturePage(2000, "medium-id-page", "Medium ID Page"), <<>>),
       RawBlock(3001, << <<"Block from page with id 3000">> >>, 3000, 3000,
                FixturePage(3000, "high-id-page", "High ID Page"), <<>>) >>

Fixtures == {ExampleResponse, PagesSortedByIdResponse}

\* Generated records.  Block ids are 1..n in batch order; page ids are far
\* from them, as ids of one Logseq graph are.
GenPageIds == {100, 200, 300}

GenPage(page_id) ==
    [id |-> page_id, name |-> "page-" \o ToString(page_id),
     originalName |-> "Page " \o ToString(page_id)]

PropertyContent(id) == << <<"alias:: ", "alias-" \o ToString(id)>> >>

PropertyMap(id) == << <<"alias", ListValue(<<"alias-" \o ToString(id)>>)>> >>

GenRecord(i, page_id, parent, left, is_property) ==
    IF is_property
    THEN RawPreBlock(i, PropertyContent(i), parent, left, GenPage(page_id),
                     PropertyMap(i))
    ELSE RawBlock(i, PlainContent(i), parent, left, GenPage(page_id), <<>>)

\* the record without one key: "page", "parent", "left", "id", "content" at
\* the top, or a key of the nested "page", "parent" or "left" object
Without(d, key) == [k \in DOMAIN d \ {key} |-> d[k]]

DropPath(record, path) ==
    IF Len(path) = 1 THEN Without(record, path[1])
    ELSE [record EXCEPT ![path[1]] = Without(record[path[1]], path[2])]

RequiredPaths ==
    { <<"page">>, <<"page", "id">>, <<"page", "name">>, <<"page", "originalName">>,
      <<"parent">>, <<"parent", "id">>, <<"left">>, <<"left", "id">>,
      <<"id">>, <<"content">> }

-----------------------------------------------------------------------------
(* page_to_markdown and clean_response, call by call *)

NoOutput == <<>>

PageCommon ==
    /\ entry \in {"page_to_markdown", "clean_response"}
    /\ pc = entry
    /\ pages = <<>>
    /\ blocks = <<>>
    /\ sorted_pages = <<>>
    /\ results = <<>>
    /\ output = NoOutput
    /\ error = "none"

\* a batch of the test fixtures
InitFixture ==
    /\ response \in Fixtures
    /\ PageCommon

\* an outline of one page: every block hangs under the page or under the
\* first block, its left link is its parent or another block, and it is an
\* ordinary block or a page-property block
InitOutline ==
    /\ \E n \in 0..MaxRecords :
          \E f \in [1..n -> {100, 1} \X (0..(n - 1)) \X BOOLEAN] :
             response = [i \in 1..n |->
                 GenRecord(i, 100, f[i][1],
                           IF f[i][2] = 0 THEN f[i][1] ELSE OtherId(i, f[i][2]),
                           f[i][3])]
    /\ PageCommon

\* blocks of two pages in any order: every block heads the chain under its
\* parent, which is a page (its own or the other one) or the first block, and
\* it is an ordinary block or a page-property block
InitPages ==
    /\ \E n \in 1..MaxRecords :
          \E f \in [1..n -> {100, 200} \X {100, 200, 1} \X BOOLEAN] :
             response = [i \in 1..n |->
                 GenRecord(i, f[i][1], f[i][2], f[i][2], f[i][3])]
    /\ PageCommon

\* top-level blocks of up to three pages, the pages in any order
InitPageOrder ==
    /\ \E n \in 1..MaxRecords :
          \E f \in [1..n -> GenPageIds] :
             response = [i \in 1..n |-> GenRecord(i, f[i], f[i], f[i], FALSE)]
    /\ PageCommon

\* a batch with one required key missing in one record
InitMalformed ==
    /\ \E n \in 1..MaxRecords :
          \E f \in [1..n -> {100, 200}] :
             \E bad \in 1..n :
                \E path \in RequiredPaths :
                   response = [i \in 1..n |->
                       IF i = bad
                       THEN DropPath(GenRecord(i, f[i], f[i], f[i], FALSE), path)
                       ELSE GenRecord(i, f[i], f[i], f[i], FALSE)]
    /\ PageCommon

\* a page as a later record may name it
RenamedPage(page_id) ==
    [id |-> page_id, name |-> "renamed-" \o ToString(page_id),
     originalName |-> "Renamed " \o ToString(page_id)]

\* top-level blocks of two pages, the records of a page not agreeing on its
\* name fields
InitRenamedPages ==
    /\ \E n \in 1..MaxRecords :
          \E f \in [1..n -> {100, 200} \X BOOLEAN] :
             response = [i \in 1..n |->
                 RawBlock(i, PlainContent(i), f[i][1], f[i][1],
                          IF f[i][2] THEN RenamedPage(f[i][1])
                          ELSE GenPage(f[i][1]),
                          <<>>)]
    /\ PageCommon

\* top-level blocks of one page, one of them carrying the id of the page
\* itself as its own id, its parent and its left link
InitSelfRooted ==
    /\ \E n \in 1..MaxRecords :
          \E k \in 1..n :
             response = [i \in 1..n |->
                 IF i = k
                 THEN RawBlock(100, PlainContent(100), 100, 100, GenPage(100), <<>>)
                 ELSE GenRecord(i, 100, 100, 100, FALSE)]
    /\ PageCommon

PageInit ==
    \/ InitFixture
    \/ InitOutline
    \/ InitPages
    \/ InitPageOrder
    \/ InitMalformed
    \/ InitSelfRooted
    \/ InitRenamedPages

\* lines 96-100
PageToMarkdown ==
    /\ pc = "page_to_markdown"
    /\ IF is_empty_response(response)
       THEN /\ output' = EmptyString
            /\ pc' = "returned"
       ELSE /\ output' = output
            /\ pc' = "clean_response"
    /\ UNCHANGED <<response, entry, pages, blocks, sorted_pages, results, error>>
    /\ UNCHANGED <<lvVars, trVars, bmVars, first_output, rqVars, gpVars>>

\* clean_response, called directly or at line 100; page_to_markdown has no
\* handler, so an exception of clean_response ends it too
CleanResponse ==
    /\ pc = "clean_response"
    /\ LET r == clean_response(response)
       IN  IF r.raised
           THEN /\ error' = r.error
                /\ pc' = "raised"
                /\ UNCHANGED <<pages, blocks>>
           ELSE /\ pages' = r.value.pages
                /\ blocks' = r.value.blocks
                /\ pc' = IF entry = "clean_response" THEN "returned"
                         ELSE "dispatch"
                /\ error' = error
    /\ UNCHANGED <<response, entry, sorted_pages, results, output>>
    /\ UNCHANGED <<lvVars, trVars, bmVars, first_output, rqVars, gpVars>>

\* lines 107-109
ConvertSinglePage ==
    /\ pc = "dispatch"
    /\ Len(pages) = 1
    /\ LET r == build_markdown(pages[1], blocks)
       IN  IF r.raised
           THEN /\ error' = r.error
                /\ pc' = "raised"
                /\ output' = output
           ELSE /\ output' = r.value
                /\ pc' = "returned"
                /\ error' = error
    /\ UNCHANGED <<response, entry, pages, blocks, sorted_pages, results>>
    /\ UNCHANGED <<lvVars, trVars, bmVars, first_output, rqVars, gpVars>>

\* lines 110-116
SortPages ==
    /\ pc = "dispatch"
    /\ Len(pages) # 1
    /\ sorted_pages' = sort_pages(pages)
    /\ results' = <<>>
    /\ pc' = "for_page"
    /\ UNCHANGED <<response, entry, pages, blocks, output, error>>
    /\ UNCHANGED <<lvVars, trVars, bmVars, first_output, rqVars, gpVars>>

\* lines 117-123: one pass of the loop
ConvertPage ==
    /\ pc = "for_page"
    /\ Len(results) < Len(sorted_pages)
    /\ LET page == sorted_pages[Len(results) + 1]
           page_blocks == filter_page_blocks(blocks, page)
           r == build_markdown(page, page_blocks)
       IN  IF r.raised
           THEN /\ error' = r.error
                /\ pc' = "raised"
                /\ results' = results
           ELSE /\ results' = Append(results, r.value)
                /\ pc' = pc
                /\ error' = error
    /\ UNCHANGED <<response, entry, pages, blocks, sorted_pages, output>>
    /\ UNCHANGED <<lvVars, trVars, bmVars, first_output, rqVars, gpVars>>

\* line 126
JoinResults ==
    /\ pc = "for_page"
    /\ Len(results) = Len(sorted_pages)
    /\ output' = JoinParagraphs(results)
    /\ pc' = "returned"
    /\ UNCHANGED <<response, entry, pages, blocks, sorted_pages, results, error>>
    /\ UNCHANGED <<lvVars, trVars, bmVars, first_output, rqVars, gpVars>>

Next ==
    \/ PageToMarkdown
    \/ CleanResponse
    \/ ConvertSinglePage
    \/ SortPages
    \/ ConvertPage
    \/ JoinResults

-----------------------------------------------------------------------------
(* build_markdown called twice on the same Page and the same Block objects *)

\* the page of the build_markdown tests
BuildPage == Page(RootId, "test-page", "Test Page")

\* the property maps a generated block may carry: none, one key with a
\* string value, or two keys the first of which has a list of two values
BuildProperties(i, kind) ==
    IF kind = 0 THEN <<>>
    ELSE IF kind = 1 THEN << <<"alias", StrValue("alias-" \o ToString(i))>> >>
    ELSE << <<"tags", ListValue(<<"t-" \o ToString(i), "u-" \o ToString(i)>>)>>,
            <<"author", StrValue("author-" \o ToString(i))>> >>

\* the contents a generated block may have: one plain line, or a code fence
\* of one, two or three lines
BuildContent(i, kind) ==
    IF kind = "fence1" THEN << <<Fence, ToString(i)>> >>
    ELSE IF kind = "fence2" THEN << <<Fence, ToString(i)>>, <<Fence>> >>
    ELSE IF kind = "fence3"
    THEN << <<Fence, ToString(i)>>, <<"code", ToString(i)>>, <<Fence>> >>
    ELSE PlainContent(i)

BuildKinds == {"plain", "properties", "fence1", "fence2", "fence3"}

\* the block before block i in the mapping, the page for the first one
Previous(i) == IF i = 1 THEN RootId ELSE i - 1

\* top-level blocks in one intact chain, each with or without the
\* page-property flag and with any of the property maps
InitPropertyBlocks ==
    \E n \in 0..MaxBuildBlocks :
       \E f \in [1..n -> BOOLEAN \X (0..2)] :
          bm_blocks = [i \in 1..n |->
              Block(i, PlainContent(i), RootId, Previous(i), RootId,
                    BuildProperties(i, f[i][2]), f[i][1])]

\* an outline: every block hangs under the page, under the first block or
\* under the block before it, comes first under its parent or after the
\* block before it, and is plain, carries properties or is a code fence
InitBuildOutline ==
    \E n \in 1..MaxBuildBlocks :
       \E f \in [1..n -> {RootId, 1, -1} \X BOOLEAN \X BuildKinds] :
          bm_blocks = [i \in 1..n |->
              LET parent == IF f[i][1] = -1 THEN Previous(i)
                            ELSE IF f[i][1] = i THEN RootId ELSE f[i][1]
                  left == IF f[i][2] /\ i > 1 THEN i - 1 ELSE parent
              IN  Block(i, BuildContent(i, f[i][3]), parent, left, RootId,
                        IF f[i][3] = "properties" THEN BuildProperties(i, 2)
                        ELSE <<>>,
                        FALSE)]

BuildInit ==
    /\ InitPropertyBlocks \/ InitBuildOutline
    /\ bm_pc = "extract_properties"
    /\ bm_properties = <<>>
    /\ bm_remaining = <<>>
    /\ bm_roots = <<>>
    /\ bm_documents = <<>>

\* line 512
ExtractProperties ==
    /\ bm_pc = "extract_properties"
    /\ LET extracted == extract_properties_func(bm_blocks)
       IN  /\ bm_properties' = extracted[1]
           /\ bm_remaining' = extracted[2]
    /\ bm_pc' = "reorganize_blocks"
    /\ UNCHANGED <<bm_blocks, bm_roots, bm_documents>>
    /\ UNCHANGED <<lvVars, trVars, pgVars, first_output, rqVars, gpVars>>

\* line 520; the children fields of the objects placed in the tree are set
ReorganizeRemaining ==
    /\ bm_pc = "reorganize_blocks"
    /\ LET r == reorganize_blocks(bm_remaining, BuildPage.id)
       IN  IF r.raised
           THEN /\ bm_pc' = "raised"
                /\ UNCHANGED <<bm_blocks, bm_roots>>
           ELSE /\ bm_roots' = r.value
                /\ bm_blocks' = objects_after(bm_blocks, r.value)
                /\ bm_pc' = "format_blocks"
    /\ UNCHANGED <<bm_properties, bm_remaining, bm_documents>>
    /\ UNCHANGED <<lvVars, trVars, pgVars, first_output, rqVars, gpVars>>

\* lines 509, 513-517 and 523-528; a second call follows the first
FormatAndJoin ==
    /\ bm_pc = "format_blocks"
    /\ LET block_markdown == format_blocks(bm_roots)
           document == JoinLines(
               << << <<"# ", BuildPage.original_name>> >>, EmptyString >>
               \o properties_section(bm_properties)
               \o (IF block_markdown # EmptyString
                   THEN <<block_markdown>> ELSE <<>>))
       IN  bm_documents' = Append(bm_documents, document)
    /\ bm_pc' = IF bm_documents = <<>> THEN "extract_properties" ELSE "done"
    /\ UNCHANGED <<bm_blocks, bm_properties, bm_remaining, bm_roots>>
    /\ UNCHANGED <<lvVars, trVars, pgVars, first_output, rqVars, gpVars>>

\* page_to_markdown has returned and is called again with the same batch;
\* the call starts with fresh locals, the batch is as it was
CallAgain ==
    /\ pc = "returned"
    /\ entry = "page_to_markdown"
    /\ first_output = <<>>
    /\ first_output' = <<output>>
    /\ pc' = "page_to_markdown"
    /\ pages' = <<>>
    /\ blocks' = <<>>
    /\ sorted_pages' = <<>>
    /\ results' = <<>>
    /\ output' = NoOutput
    /\ UNCHANGED <<response, entry, error>>
    /\ UNCHANGED <<lvVars, trVars, bmVars, rqVars, gpVars>>

BuildNext ==
    \/ ExtractProperties
    \/ ReorganizeRemaining
    \/ FormatAndJoin

-----------------------------------------------------------------------------
(* request(): _request_with_retry inside the wrapper of with_retry *)

DEFAULT_MAX_RETRIES == 3

DEFAULT_BASE_DELAY == 1

DEFAULT_BACKOFF_FACTOR == 2

RETRY_STATUS_CODES == {429, 500, 502, 503, 504}

\* the status codes the server is made to answer with
StatusCodes == {200, 400, 401, 404, 429, 499, 500, 501, 502, 503, 504, 599}

\* what one call of post() can do: raise ConnectionError or Timeout, or
\* return a response with a status code
PostOutcomes ==
    {[type |-> t, status |-> 0] : t \in {"ConnectionError", "Timeout"}}
    \cup {[type |-> "Response", status |-> c] : c \in StatusCodes}

\* the exceptions, with str(e) as one token
ExceptionOf(type, status, message) ==
    [type |-> type, status |-> status, message |-> message]

StrOf(e) ==
    IF e.type = "McpError" THEN e.message
    ELSE IF e.type = "HTTPError" THEN <<"HTTPError ", ToString(e.status)>>
    ELSE <<e.type>>

McpError(message) == ExceptionOf("McpError", 0, message)

\* faulty variant: the body of the first response is handed out
JsonBody_of_first(n) == <<"json", 1>>

\* the JSON body of the response of attempt n
JsonBody(n) == <<"json", n>>

\* status_code in RETRY_STATUS_CODES (lines 90 and 206)
is_retry_status(status) == status \in RETRY_STATUS_CODES

\* _request_with_retry, lines 180-211: one attempt, given what post() does
request_once(has_key, posted, n) ==
    IF ~has_key THEN Raise(McpError(<<"No API token found">>))
    ELSE IF posted.type # "Response"
    THEN Raise(ExceptionOf(posted.type, 0, <<>>))
    ELSE IF posted.status = 401 THEN Raise(McpError(<<"Invalid API token">>))
    ELSE IF 400 <= posted.status /\ posted.status < 500 /\ posted.status # 429
    THEN Raise(McpError(<<"API request failed", " with status ",
                          ToString(posted.status)>>))
    ELSE IF posted.status >= 400
    THEN Raise(ExceptionOf("HTTPError", posted.status, <<>>))
    ELSE Return(JsonBody(n))

\* faulty variant: whatever the wrapped call raises is retried
on_exception_retrying_all(e) == [retry |-> TRUE]

\* lines 81-104 and 113-116: what the wrapper does with an exception of the
\* wrapped call: "retry", or the McpError it raises at once
on_exception(e) ==
    IF e.type \in {"ConnectionError", "Timeout"} THEN [retry |-> TRUE]
    ELSE IF e.type = "HTTPError"
    THEN IF is_retry_status(e.status) THEN [retry |-> TRUE]
         ELSE IF e.status = 401
         THEN [retry |-> FALSE, raise |-> McpError(<<"Invalid API token">>)]
         ELSE [retry |-> FALSE,
               raise |-> McpError(<<"API request failed", ": ">> \o StrOf(e))]
    ELSE [retry |-> FALSE, raise |-> McpError(<<"Request failed: ">> \o StrOf(e))]

RECURSIVE Power(_, _)
Power(b, e) == IF e = 0 THEN 1 ELSE b * Power(b, e - 1)

\* faulty variant: the exponent is the attempt number
backoff_delay_from_attempt(n) ==
    DEFAULT_BASE_DELAY * Power(DEFAULT_BACKOFF_FACTOR, n)

\* lines 73 and 109
backoff_delay(n) == DEFAULT_BASE_DELAY * Power(DEFAULT_BACKOFF_FACTOR, n - 1)

\* faulty variant: one attempt more
attempts_allowed_one_more(max_retries) == max_retries + 2

\* line 56: the loop runs while attempt < max_retries + 1
attempts_allowed(max_retries) == max_retries + 1

\* lines 118-148: the error raised when the loop has ended
exhausted_error(e, n) ==
    LET suffix == <<" (after ", ToString(n), " attempts)">>
    IN  IF e = None
        THEN McpError(<<"Request failed with unknown error after ",
                        ToString(n), " attempts">>)
        ELSE IF e.type = "ConnectionError"
        THEN McpError(<<"Network error", ": ">> \o StrOf(e) \o suffix)
        ELSE IF e.type = "Timeout"
        THEN McpError(<<"Timeout error", ": ">> \o StrOf(e) \o suffix)
        ELSE IF e.type = "HTTPError"
        THEN McpError(<<"API request failed", " with status ",
                        ToString(e.status)>> \o suffix)
        ELSE McpError(<<"Request failed: ">> \o StrOf(e) \o suffix)

RequestInit ==
    /\ rq_pc = "while"
    /\ api_key \in BOOLEAN
    /\ attempt = 0
    /\ last_exception = None
    /\ rq_posts = <<>>
    /\ rq_sleeps = <<>>
    /\ rq_result = None

\* lines 56-61, 79, 81-104 and 113-116: one pass of the loop up to the
\* return, the raise or the point where the backoff delay is computed
Attempt ==
    /\ rq_pc = "while"
    /\ attempt < attempts_allowed(DEFAULT_MAX_RETRIES)
    /\ attempt' = attempt + 1
    /\ \E posted \in PostOutcomes :
          LET r == request_once(api_key, posted, attempt + 1)
          IN  /\ rq_posts' = IF api_key THEN Append(rq_posts, posted)
                             ELSE rq_posts
              /\ IF ~r.raised
                 THEN /\ rq_result' = Return(r.value)
                      /\ rq_pc' = "returned"
                      /\ UNCHANGED last_exception
                 ELSE IF on_exception(r.error).retry
                 THEN /\ last_exception' = r.error
                      /\ rq_pc' = "backoff"
                      /\ UNCHANGED rq_result
                 ELSE /\ rq_result' = Raise(on_exception(r.error).raise)
                      /\ rq_pc' = "raised"
                      /\ last_exception' =
                            IF r.error.type = "HTTPError" THEN r.error
                            ELSE last_exception
    /\ UNCHANGED <<api_key, rq_sleeps>>
    /\ UNCHANGED <<lvVars, trVars, pgVars, bmVars, first_output, gpVars>>

\* lines 108-111: the delay after a failure to retry, then back to line 56
Backoff ==
    /\ rq_pc = "backoff"
    /\ rq_sleeps' = Append(rq_sleeps, backoff_delay(attempt))
    /\ rq_pc' = "while"
    /\ UNCHANGED <<api_key, attempt, last_exception, rq_posts, rq_result>>
    /\ UNCHANGED <<lvVars, trVars, pgVars, bmVars, first_output, gpVars>>

\* lines 118-148: the loop has ended without a return
Exhausted ==
    /\ rq_pc = "while"
    /\ ~(attempt < attempts_allowed(DEFAULT_MAX_RETRIES))
    /\ rq_result' = Raise(exhausted_error(last_exception, attempt))
    /\ rq_pc' = "raised"
    /\ UNCHANGED <<api_key, attempt, last_exception, rq_posts, rq_sleeps>>
    /\ UNCHANGED <<lvVars, trVars, pgVars, bmVars, first_output, gpVars>>

RequestNext ==
    \/ Attempt
    \/ Backoff
    \/ Exhausted

-----------------------------------------------------------------------------
(* server.py: get_personal_notes and the queries it hands to req *)

MaxTopics == 2

TopicNames == {"tla", "python"}

\* an optional date argument: <<>> is None, <<d>> is the string d
NoDate == <<>>

DateArgs == {NoDate, <<"">>, <<"1w">>}

\* Python truth of an optional string: None and "" are false
Truthy(d) == d # NoDate /\ d[1] # ""

\* what an f-string prints for the value: None prints as None
Formatted(d) == IF d = NoDate THEN "None" ELSE d[1]

\* date_range_to_query (query is a sequence of tokens)
date_range_to_query(query, from, to) ==
    IF Truthy(from) /\ Truthy(to)
    THEN <<"(and ">> \o query
             \o <<" (between ", Formatted(from), " ", Formatted(to), "))">>
    ELSE IF Truthy(from)
    THEN <<"(and ">> \o query \o <<" (between -", Formatted(from), " today))">>
    ELSE IF Truthy(to)
    THEN <<"(and ">> \o query \o <<" (between today +", Formatted(to), "))">>
    ELSE query

\* lines 77-80: the query on the [[topic]] form of every topic
tag_query(topic_list, from, to) ==
    date_range_to_query(
        <<"(or ">>
            \o JoinTokens([i \in DOMAIN topic_list |-> <<"[[", topic_list[i], "]]">>], " ")
            \o <<")">>,
        from, to)

\* lines 85-88: the query on the quoted form of every topic
full_text_query(topic_list, from, to) ==
    date_range_to_query(
        <<"(or ">>
            \o JoinTokens([i \in DOMAIN topic_list |-> <<"\"", topic_list[i], "\"">>], " ")
            \o <<")">>,
        from, to)

\* line 94: the query of a call with dates and no topic
date_only_query(from, to) == date_range_to_query(<<"None">>, from, to)

\* guide, line 18
guide_query == <<"(page \"MCP PKM Logseq\")">>

\* documents req can answer with
FoundByTag == <<<<"# ", "Page">>, <<>>, <<"- ", "tagged note">>>>

FoundByText == <<<<"# ", "Page">>, <<>>, <<"- ", "note with the words">>>>

\* req: page_to_markdown(request(...)) answers the empty string for a batch
\* without records, a document otherwise, or lets the error of request pass
ReqOutcomes ==
    {Return(EmptyString), Return(FoundByTag), Return(FoundByText),
     Raise("McpError")}

\* faulty variant: the full-text query is made whatever the tag query found
needs_full_text_always(text) == TRUE

\* line 84, if rslt == ""
needs_full_text(text) == text = EmptyString

NotesInit ==
    /\ gp_pc = "start"
    /\ \E n \in 0..MaxTopics : topics \in [1..n -> TopicNames]
    /\ from_date \in DateArgs
    /\ to_date \in DateArgs
    /\ gp_queries = <<>>
    /\ rslt = <<>>
    /\ gp_result = None

\* lines 76-81: the tag query
TagQuery ==
    /\ gp_pc = "start"
    /\ Len(topics) > 0
    /\ \E o \in ReqOutcomes :
          /\ gp_queries' = Append(gp_queries,
                [query |-> tag_query(topics, from_date, to_date), outcome |-> o])
          /\ IF o.raised
             THEN /\ gp_pc' = "raised"
                  /\ gp_result' = o
                  /\ UNCHANGED rslt
             ELSE /\ gp_pc' = "tagged"
                  /\ rslt' = <<o.value>>
                  /\ UNCHANGED gp_result
    /\ UNCHANGED <<topics, from_date, to_date>>
    /\ UNCHANGED <<lvVars, trVars, pgVars, bmVars, first_output, rqVars>>

\* lines 84-89: the full-text query
FullTextQuery ==
    /\ gp_pc = "tagged"
    /\ needs_full_text(rslt[1])
    /\ \E o \in ReqOutcomes :
          /\ gp_queries' = Append(gp_queries,
                [query |-> full_text_query(topics, from_date, to_date), outcome |-> o])
          /\ IF o.raised
             THEN /\ gp_pc' = "raised"
                  /\ gp_result' = o
                  /\ UNCHANGED rslt
             ELSE /\ gp_pc' = "searched"
                  /\ rslt' = <<o.value>>
                  /\ UNCHANGED gp_result
    /\ UNCHANGED <<topics, from_date, to_date>>
    /\ UNCHANGED <<lvVars, trVars, pgVars, bmVars, first_output, rqVars>>

\* line 91: return rslt
ReturnRslt ==
    /\ \/ gp_pc = "tagged" /\ ~needs_full_text(rslt[1])
       \/ gp_pc = "searched"
    /\ gp_pc' = "returned"
    /\ gp_result' = Return(rslt[1])
    /\ UNCHANGED <<topics, from_date, to_date, gp_queries, rslt>>
    /\ UNCHANGED <<lvVars, trVars, pgVars, bmVars, first_output, rqVars>>

\* lines 93-95: no topic, a date given
DateQuery ==
    /\ gp_pc = "start"
    /\ Len(topics) = 0
    /\ Truthy(from_date) \/ Truthy(to_date)
    /\ \E o \in ReqOutcomes :
          /\ gp_queries' = Append(gp_queries,
                [query |-> date_only_query(from_date, to_date), outcome |-> o])
          /\ gp_pc' = IF o.raised THEN "raised" ELSE "returned"
          /\ gp_result' = o
    /\ UNCHANGED <<topics, from_date, to_date, rslt>>
    /\ UNCHANGED <<lvVars, trVars, pgVars, bmVars, first_output, rqVars>>

\* line 97: no topic and no date, the guide page
Guide ==
    /\ gp_pc = "start"
    /\ Len(topics) = 0
    /\ ~(Truthy(from_date) \/ Truthy(to_date))
    /\ \E o \in ReqOutcomes :
          /\ gp_queries' = Append(gp_queries,
                [query |-> guide_query, outcome |-> o])
          /\ gp_pc' = IF o.raised THEN "raised" ELSE "returned"
          /\ gp_result' = o
    /\ UNCHANGED <<topics, from_date, to_date, rslt>>
    /\ UNCHANGED <<lvVars, trVars, pgVars, bmVars, first_output, rqVars>>

NotesNext ==
    \/ TagQuery
    \/ FullTextQuery
    \/ ReturnRslt
    \/ DateQuery
    \/ Guide

-----------------------------------------------------------------------------
(* Specifications *)

\* the variables of the other specifications stay at their idle values
LevelIdle ==
    /\ lv_blocks = <<>>
    /\ lv_pc = "idle"
    /\ children = <<>>
    /\ first_block = None
    /\ sorted_children = <<>>
    /\ remaining_children = <<>>
    /\ current_id = RootId
    /\ iterations = 0
    /\ examined = <<>>

TreeIdle ==
    /\ tr_blocks = <<>>
    /\ tr_pc = "idle"
    /\ tree = <<>>
    /\ markdown = <<>>

PageIdle ==
    /\ response = <<>>
    /\ entry = "none"
    /\ pc = "idle"
    /\ pages = <<>>
    /\ blocks = <<>>
    /\ sorted_pages = <<>>
    /\ results = <<>>
    /\ output = NoOutput
    /\ error = "none"

BuildIdle ==
    /\ bm_blocks = <<>>
    /\ bm_pc = "idle"
    /\ bm_properties = <<>>
    /\ bm_remaining = <<>>
    /\ bm_roots = <<>>
    /\ bm_documents = <<>>

FirstCall == first_output = <<>>

RequestIdle ==
    /\ rq_pc = "idle"
    /\ api_key = TRUE
    /\ attempt = 0
    /\ last_exception = None
    /\ rq_posts = <<>>
    /\ rq_sleeps = <<>>
    /\ rq_result = None

NotesIdle ==
    /\ gp_pc = "idle"
    /\ topics = <<>>
    /\ from_date = NoDate
    /\ to_date = NoDate
    /\ gp_queries = <<>>
    /\ rslt = <<>>
    /\ gp_result = None

Init == PageInit /\ LevelIdle /\ TreeIdle /\ BuildIdle /\ FirstCall
        /\ RequestIdle /\ NotesIdle

Spec == Init /\ [][Next]_vars

InitLevel == LevelInit /\ TreeIdle /\ PageIdle /\ BuildIdle /\ FirstCall
             /\ RequestIdle /\ NotesIdle

SpecLevel == InitLevel /\ [][LevelNext]_vars

InitBuild == BuildInit /\ LevelIdle /\ TreeIdle /\ PageIdle /\ FirstCall
             /\ RequestIdle /\ NotesIdle

SpecBuild == InitBuild /\ [][BuildNext]_vars

\* either function called twice in a row with the same arguments
InitCalls ==
    /\ (BuildInit /\ PageIdle) \/ (PageInit /\ BuildIdle)
    /\ LevelIdle /\ TreeIdle /\ FirstCall /\ RequestIdle /\ NotesIdle

CallsNext ==
    \/ ExtractProperties
    \/ ReorganizeRemaining
    \/ FormatAndJoin
    \/ PageToMarkdown
    \/ CleanResponse
    \/ ConvertSinglePage
    \/ SortPages
    \/ ConvertPage
    \/ JoinResults
    \/ CallAgain

SpecCalls == InitCalls /\ [][CallsNext]_vars

InitRequest ==
    /\ RequestInit
    /\ LevelIdle /\ TreeIdle /\ PageIdle /\ BuildIdle /\ FirstCall
    /\ NotesIdle

SpecRequest == InitRequest /\ [][RequestNext]_vars

InitTree == TreeInit /\ LevelIdle /\ PageIdle /\ BuildIdle /\ FirstCall
            /\ RequestIdle /\ NotesIdle

SpecTree == InitTree /\ [][TreeNext]_vars

InitNotes ==
    /\ NotesInit
    /\ LevelIdle /\ TreeIdle /\ PageIdle /\ BuildIdle /\ FirstCall
    /\ RequestIdle

SpecNotes == InitNotes /\ [][NotesNext]_vars

-----------------------------------------------------------------------------
(* Reference notions used to state the properties *)

\* p orders kids as one chain from parent: the first has left_id = parent
\* and every next one has the id of the one before it as left_id
IsChainOrder(kids, parent, p) ==
    /\ \A i, j \in DOMAIN kids : p[i] = p[j] => i = j
    /\ kids[p[1]].left_id = parent
    /\ \A j \in 2..Len(kids) : kids[p[j]].left_id = kids[p[j - 1]].id

ChainOrders(kids, parent) ==
    {p \in [DOMAIN kids -> DOMAIN kids] : IsChainOrder(kids, parent, p)}

SiblingsOf(blks, parent) == SelectSeq(blks, LAMBDA b : b.parent_id = parent)

\* the siblings under parent form one intact acyclic chain
IntactChain(blks, parent) == ChainOrders(SiblingsOf(blks, parent), parent) # {}

AllLevelsIntact(blks) ==
    \A parent \in {blks[i].parent_id : i \in DOMAIN blks} :
        IntactChain(blks, parent)

\* the nodes of a tree, the nested ones included, in rendering order
RECURSIVE Flatten(_)
Flatten(nodes) ==
    IF nodes = <<>> THEN <<>>
    ELSE <<Head(nodes)>> \o Flatten(Head(nodes).children) \o Flatten(Tail(nodes))

\* every level of the tree is its siblings in chain order
RECURSIVE LevelsInChainOrder(_, _, _)
LevelsInChainOrder(nodes, parent, blks) ==
    LET kids == SiblingsOf(blks, parent)
    IN  /\ Len(nodes) = Len(kids)
        /\ kids # <<>> =>
              \E p \in ChainOrders(kids, parent) :
                 Ids(nodes) = [j \in DOMAIN kids |-> kids[p[j]].id]
        /\ \A i \in DOMAIN nodes :
              LevelsInChainOrder(nodes[i].children, nodes[i].id, blks)

\* where the parent links lead from id: to the root, to an id nothing
\* carries ("orphan"), or round in a circle
RECURSIVE Fate(_, _, _)
Fate(blks, id, fuel) ==
    IF id = RootId THEN "root"
    ELSE IF id \notin Range(Ids(blks)) THEN "orphan"
    ELSE IF fuel = 0 THEN "cycle"
    ELSE LET k == CHOOSE k \in DOMAIN blks : blks[k].id = id
         IN  Fate(blks, blks[k].parent_id, fuel - 1)

FateOf(blks, b) == Fate(blks, b.parent_id, Len(blks))

\* the lines of text that end with the first content line of block b
MentionsOf(text, b) ==
    {k \in DOMAIN text :
        /\ Len(text[k]) >= Len(b.content[1])
        /\ SubSeq(text[k], Len(text[k]) - Len(b.content[1]) + 1, Len(text[k]))
           = b.content[1]}

-----------------------------------------------------------------------------
(* Properties of one level (SpecLevel) *)

\* C3: whatever the left_id values of the candidates (self-referencing,
\* mutually referencing, dangling, several heads, no head), the sequence
\* reorganize_blocks settles for the level is a permutation of the candidate
\* set: every candidate exactly once.
C3_LevelIsPermutation ==
    lv_pc = "return" =>
        /\ children = SiblingsOf(lv_blocks, RootId)
        /\ Len(sorted_children) = Len(children)
        /\ \A k \in DOMAIN children : Count(sorted_children, children[k]) = 1

C3_Witness ==
    /\ lv_pc = "return"
    /\ Len(children) = 3
    /\ first_block # None
    /\ \E k \in DOMAIN children : children[k].left_id = children[k].id
    /\ \E k \in DOMAIN children : children[k].left_id = Dangling
    /\ sorted_children # children

\* C4: the chain walk ends within candidate_count passes of its loop: every
\* pass either moves one candidate from remaining_children to sorted_children
\* or takes the fallback and leaves the loop, no state before the return is
\* stuck, and no candidate already placed is examined or placed again.
C4_ChainWalkBounded ==
    /\ iterations <= Len(children)
    /\ lv_pc = "while" =>
          /\ Len(sorted_children) = 1 + iterations
          /\ Len(remaining_children) = Len(children) - 1 - iterations
    /\ lv_pc \notin {"return", "idle"} => ENABLED LevelNext
    /\ \A k \in DOMAIN examined : ~examined[k].placed
    /\ \A k \in DOMAIN sorted_children :
          Count(Ids(sorted_children), sorted_children[k].id) = 1

C4_Witness ==
    /\ lv_pc = "return"
    /\ Len(children) = 3
    /\ iterations = 2
    /\ Len(examined) = 3
    /\ \E k \in DOMAIN children : children[k].left_id = children[k].id

\* the statement-by-statement walk and the operator used elsewhere agree
LevelAgreesWithOperator ==
    lv_pc = "return" /\ children # <<>> =>
        sorted_children = sort_children(children, RootId)

-----------------------------------------------------------------------------
(* Properties of reorganize_blocks and format_blocks (SpecTree) *)

\* C1: when at every level the siblings sharing a parent_id form one intact
\* acyclic left_id chain starting at the sibling whose left_id is the parent
\* id, reorganize_blocks returns at every level exactly those siblings in
\* chain order, whatever their order in the mapping.
C1_IntactChainsGiveChainOrder ==
    tr_pc \in {"reorganized", "formatted"} /\ AllLevelsIntact(tr_blocks) =>
        LevelsInChainOrder(tree, RootId, tr_blocks)

C1_Witness ==
    /\ tr_pc = "reorganized"
    /\ AllLevelsIntact(tr_blocks)
    /\ Len(tree) = 2
    /\ tree[1].id > tree[2].id
    /\ Len(tree[2].children) = 1

\* C5: a block whose parent links end at an id that is neither the root id
\* nor a block id is in no level of the returned tree and on no line of the
\* rendered Markdown, the orphan itself and its descendants alike, while
\* reorganize_blocks returns and every block whose parent links lead to the
\* root is in the tree and in the Markdown once.
C5_OrphansAreDropped ==
    /\ tr_pc # "raised"
    /\ tr_pc \in {"reorganized", "formatted"} =>
          \A k \in DOMAIN tr_blocks :
             LET b == tr_blocks[k]
                 fate == FateOf(tr_blocks, b)
             IN  /\ fate = "orphan" => Count(Ids(Flatten(tree)), b.id) = 0
                 /\ fate = "root" => Count(Ids(Flatten(tree)), b.id) = 1
                 /\ tr_pc = "formatted" /\ fate = "orphan" =>
                       MentionsOf(markdown, b) = {}
                 /\ tr_pc = "formatted" /\ fate = "root" =>
                       Cardinality(MentionsOf(markdown, b)) = 1

C5_Witness ==
    /\ tr_pc = "formatted"
    /\ \E i, j, k \in DOMAIN tr_blocks :
          /\ tr_blocks[i].parent_id = Dangling
          /\ tr_blocks[j].parent_id = tr_blocks[i].id
          /\ tr_blocks[j].left_id = tr_blocks[i].id
          /\ tr_blocks[k].parent_id = RootId
    /\ Len(Flatten(tree)) = 1

-----------------------------------------------------------------------------
(* Properties of page_to_markdown and clean_response (Spec) *)

\* the documents of a finished conversion and the pages they belong to
Docs == IF Len(pages) = 1 THEN <<output>> ELSE results

DocPages == IF Len(pages) = 1 THEN pages ELSE sorted_pages

Converted == entry = "page_to_markdown" /\ pc = "returned" /\ response # <<>>

\* the ids of the blocks written as bullets without indent, in line order
RECURSIVE TopLevelIds(_, _)
TopLevelIds(text, blks) ==
    IF text = <<>> THEN <<>>
    ELSE LET line == Head(text)
             hit == {k \in DOMAIN blks :
                        line # <<>> /\ line = <<"- ">> \o blks[k].content[1]}
         IN  (IF hit = {} THEN <<>> ELSE <<blks[CHOOSE k \in hit : TRUE].id>>)
             \o TopLevelIds(Tail(text), blks)

\* the expected document of the fixture example_response (example_output of
\* to_markdown_test.py, with the line break build_markdown ends it with)
ExampleOutput ==
    << <<"# ", "MCP PKM Logseq">>,
       <<>>,
       <<"properties:">>,
       <<"- ", "alias", ":: ", "mcp_logseq_start">>,
       <<"- ", "author", ":: ", "Ronie Uliana">>,
       <<>>,
       <<"- ", "Testing what else do we have here.">>,
       <<"  ", "- ", "Sub-block with code">>,
       <<"  ", "- ", Fence, "python">>,
       <<"  ", "  ", "print(\"This is code\")">>,
       <<"  ", "  ", Fence>>,
       <<"- ", "This is Ronie's personal and profession Logseq.">>,
       <<>> >>

\* C2 (as claimed): for every page whose raw top-level chain, the
\* page-property block included, is intact and acyclic, the bullets without
\* indent of the page's document are the non-property blocks in the order of
\* that chain, wherever the property block stands in it.
C2_RenderedOrderFollowsRawChain ==
    Converted =>
        \A i \in DOMAIN DocPages :
            LET page == DocPages[i]
                raw == SelectSeq(blocks,
                           LAMBDA b : b.page_id = page.id /\ b.parent_id = page.id)
            IN  raw # <<>> =>
                \A p \in ChainOrders(raw, page.id) :
                  TopLevelIds(Docs[i], blocks) =
                      Ids(SelectSeq([j \in DOMAIN raw |-> raw[p[j]]],
                                    LAMBDA b : ~default_property_filter(b)))

\* C6: the worked example is rendered as the heading, the properties section,
\* block 8647, under it block 8650 and the code block 8651 with its two
\* continuation lines indented two more spaces, then block 8645.
C6_WorkedExample ==
    Converted /\ response = ExampleResponse => output = ExampleOutput

C6_Witness ==
    /\ Converted
    /\ response = ExampleResponse
    /\ Len(output) = 13

\* the page ids of the heading lines of the output, in line order
RECURSIVE HeadingPageIds(_)
HeadingPageIds(text) ==
    IF text = <<>> THEN <<>>
    ELSE LET line == Head(text)
             hit == {k \in DOMAIN response :
                        line = <<"# ", response[k].page.originalName>>}
         IN  (IF hit = {} THEN <<>>
              ELSE <<response[CHOOSE k \in hit : TRUE].page.id>>)
             \o HeadingPageIds(Tail(text))

\* C7: when the batch references more than one page, the page documents come
\* in strictly descending order of page id whatever the order of first
\* appearance, and every referenced page comes exactly once.
C7_PagesInDescendingIdOrder ==
    Converted /\ Len(pages) > 1 =>
        LET heads == HeadingPageIds(output)
        IN  /\ Range(heads) = {response[k].page.id : k \in DOMAIN response}
            /\ \A j \in 1..(Len(heads) - 1) : heads[j] > heads[j + 1]

C7_Witness ==
    /\ Converted
    /\ [k \in DOMAIN response |-> response[k].page.id] = <<200, 300, 100>>

\* block b shows in text: as a bullet, or through the value of its property
AppearsIn(text, b) ==
    \/ MentionsOf(text, b) # {}
    \/ /\ b.properties # <<>>
       /\ \E k \in DOMAIN text : b.properties[1][2].items[1] \in Range(text[k])

\* where document i starts in the joined output
RECURSIVE DocStart(_, _)
DocStart(docs, i) ==
    IF i = 1 THEN 1 ELSE DocStart(docs, i - 1) + Len(docs[i - 1]) + 1

\* C8: in a conversion of several pages a block shows only in the document
\* of the page its page_id names, be it a content block or a property block,
\* and the output is the page documents with one empty line between each two.
C8_PagesAreIsolated ==
    /\ entry = "page_to_markdown" /\ Len(pages) > 1 =>
          \A i \in DOMAIN results :
             \A k \in DOMAIN blocks :
                AppearsIn(results[i], blocks[k]) =>
                    blocks[k].page_id = sorted_pages[i].id
    /\ Converted /\ Len(pages) > 1 =>
          /\ Len(results) = Len(pages)
          /\ Len(output) = DocStart(results, Len(results))
                           + Len(results[Len(results)]) - 1
          /\ \A i \in DOMAIN results :
                /\ SubSeq(output, DocStart(results, i),
                          DocStart(results, i) + Len(results[i]) - 1) = results[i]
                /\ i > 1 => output[DocStart(results, i) - 1] = <<>>

C8_Witness ==
    /\ Converted
    /\ Len(pages) = 2
    /\ \E k \in DOMAIN blocks :
          blocks[k].page_id = 200 /\ blocks[k].parent_id = 100
    /\ \E k \in DOMAIN blocks :
          /\ blocks[k].page_id = 100
          /\ default_property_filter(blocks[k])
          /\ AppearsIn(results[2], blocks[k])

\* C9: page_to_markdown returns the empty string for the empty batch and
\* never gets to clean_response, while clean_response called with the empty
\* batch ends with IndexError and returns nothing.
C9_EmptyBatch ==
    response = <<>> =>
        /\ entry = "page_to_markdown" =>
              /\ pc \in {"page_to_markdown", "returned"}
              /\ error = "none"
              /\ pc = "returned" => output = EmptyString
        /\ entry = "clean_response" =>
              /\ pc \in {"clean_response", "raised"}
              /\ pc = "raised" => error = "IndexError"
              /\ pages = <<>> /\ blocks = <<>>

C9_Witness ==
    /\ response = <<>>
    /\ entry = "page_to_markdown"
    /\ pc = "returned"
    /\ output = EmptyString

\* record r lacks one of page.id, page.name, page.originalName, parent.id,
\* left.id, id, content
LacksRequired(r) ==
    \E path \in RequiredPaths :
        \/ path[1] \notin DOMAIN r
        \/ Len(path) = 2 /\ path[2] \notin DOMAIN r[path[1]]

\* C10: if any record of a non-empty batch lacks a required field,
\* clean_response ends with KeyError and yields no pages and no blocks, and
\* page_to_markdown on that batch ends with the same error and no Markdown.
C10_MalformedRecord ==
    (\E k \in DOMAIN response : LacksRequired(response[k])) =>
        /\ pc \in {"page_to_markdown", "clean_response", "raised"}
        /\ pc = "raised" => error = "KeyError"
        /\ pc # "raised" => ENABLED Next
        /\ pages = <<>> /\ blocks = <<>> /\ output = NoOutput

C10_Witness ==
    /\ Len(response) = 3
    /\ ~LacksRequired(response[1])
    /\ ~LacksRequired(response[2])
    /\ "content" \notin DOMAIN response[3]
    /\ entry = "page_to_markdown"
    /\ pc = "raised"
    /\ error = "KeyError"

WellFormed(resp) == \A k \in DOMAIN resp : ~LacksRequired(resp[k])

\* C11 (as claimed): page_to_markdown on a non-empty batch whose records all
\* carry the required fields never ends with an error, whatever the links
\* between the records are.
C11_WellFormedBatchNeverRaises ==
    entry = "page_to_markdown" /\ response # <<>> /\ WellFormed(response) =>
        pc # "raised" /\ error = "none"

-----------------------------------------------------------------------------
(* Properties of extract_properties_func and build_markdown (SpecBuild) *)

\* extract_properties_func has just returned
Extracted == bm_pc = "reorganize_blocks"

BulletsOf(text, b) ==
    {k \in MentionsOf(text, b) : "- " \in Range(text[k])}

\* C13 (as claimed): every block that carries properties is treated as a
\* property block, flagged is_page_property or not: each of its keys gives
\* one property line, the block is not in remaining_blocks and it is not
\* rendered as a bullet.
C13_EveryPropertiesBlockIsExtracted ==
    \A i \in DOMAIN bm_blocks :
        bm_blocks[i].properties # <<>> =>
            /\ Extracted =>
                  /\ bm_blocks[i].id \notin Range(Ids(bm_remaining))
                  /\ \A k \in DOMAIN bm_blocks[i].properties :
                        \E l \in DOMAIN bm_properties :
                           bm_properties[l][1] = bm_blocks[i].properties[k][1]
            /\ \A d \in DOMAIN bm_documents :
                  BulletsOf(bm_documents[d], bm_blocks[i]) = {}

\* the property lines expected of a generated block
ExpectedPropertyLines(b) ==
    IF b.properties = BuildProperties(b.id, 1)
    THEN << <<"alias", ":: ", "alias-" \o ToString(b.id)>> >>
    ELSE << <<"tags", ":: ", "t-" \o ToString(b.id), ", ", "u-" \o ToString(b.id)>>,
            <<"author", ":: ", "author-" \o ToString(b.id)>> >>

RECURSIVE ExpectedProperties(_)
ExpectedProperties(blks) ==
    IF blks = <<>> THEN <<>>
    ELSE (IF Head(blks).is_page_property /\ Head(blks).properties # <<>>
          THEN ExpectedPropertyLines(Head(blks)) ELSE <<>>)
         \o ExpectedProperties(Tail(blks))

\* C14: the property lines are one line per key of every matched block and
\* nothing else, the blocks in the order of the mapping, the keys of a block
\* together and in the order of its map, a list value written as its
\* elements with ", " between them after "key:: ".
C14_PropertyLinesInOrder ==
    Extracted => bm_properties = ExpectedProperties(bm_blocks)

C14_Witness ==
    /\ Extracted
    /\ Len(bm_properties) = 3
    /\ \E i, j \in DOMAIN bm_blocks :
          /\ i < j
          /\ bm_blocks[i].is_page_property
          /\ bm_blocks[i].properties = BuildProperties(i, 2)
          /\ bm_blocks[j].is_page_property
          /\ bm_blocks[j].properties = BuildProperties(j, 1)

\* the lines of a document after its first n lines
DropLines(text, n) == SubSeq(text, n + 1, Len(text))

\* C15: a document is the heading line of original_name, a blank line, then
\* the line "properties:", one "- <line>" per property line and a blank
\* line if and only if there is a property line, then the rendered tree if
\* and only if there is a root block; without property lines and root
\* blocks it is the heading line alone, ended by its line break.
C15_DocumentLayout ==
    bm_pc \in {"extract_properties", "done"} =>
        \A d \in DOMAIN bm_documents :
            LET doc == bm_documents[d]
                n == Len(bm_properties)
                body == IF n = 0 THEN DropLines(doc, 2)
                        ELSE DropLines(doc, n + 4)
            IN  /\ Len(doc) >= 2
                /\ doc[1] = <<"# ", "Test Page">>
                /\ doc[2] = <<>>
                /\ n > 0 =>
                      /\ Len(doc) >= n + 4
                      /\ doc[3] = <<"properties:">>
                      /\ \A k \in 1..n : doc[3 + k] = <<"- ">> \o bm_properties[k]
                      /\ doc[n + 4] = <<>>
                /\ n = 0 => \A k \in DOMAIN doc : doc[k] # <<"properties:">>
                /\ (body = <<>>) <=> (bm_roots = <<>>)
                /\ bm_roots # <<>> =>
                      /\ body = format_blocks(bm_roots)
                      /\ body[1][1] = "- "
                /\ (n = 0 /\ bm_roots = <<>>) =>
                      doc = << <<"# ", "Test Page">>, <<>> >>

C15_Witness ==
    /\ bm_pc = "done"
    /\ Len(bm_properties) = 2
    /\ Len(bm_roots) = 2
    /\ Len(bm_documents[1]) = 9

\* the blocks of a tree with their nesting levels: a block, then its
\* children one level deeper, then the block's next sibling
RECURSIVE PreOrder(_, _)
PreOrder(nodes, level) ==
    IF nodes = <<>> THEN <<>>
    ELSE << <<Head(nodes), level>> >>
         \o PreOrder(Head(nodes).children, level + 1)
         \o PreOrder(Tail(nodes), level)

\* 2 * level spaces
Spaces(level) == [i \in 1..level |-> "  "]

\* the list item of block b at a level: its content from the bullet on, and
\* the line of its own properties
ListItem(b, level) ==
    content_lines(b.content, Spaces(level))
    \o (IF b.properties = <<>> THEN <<>>
        ELSE <<format_block_properties(b.properties, Spaces(level + 1)).line>>)

RECURSIVE ListItems(_)
ListItems(entries) ==
    IF entries = <<>> THEN <<>>
    ELSE ListItem(Head(entries)[1], Head(entries)[2]) \o ListItems(Tail(entries))

\* the rendered tree of document d, without the line break that ends it
TreeLines(d) ==
    LET doc == bm_documents[d]
        n == Len(bm_properties)
        body == IF n = 0 THEN DropLines(doc, 2) ELSE DropLines(doc, n + 4)
    IN  SubSeq(body, 1, Len(body) - 1)

ClaimedListItem(b, level) ==
    (IF HasFence(b.content)
     THEN [k \in DOMAIN b.content |->
              IF k = 1 THEN Spaces(level) \o <<"- ">> \o b.content[1]
              ELSE Spaces(level) \o <<"  ">> \o b.content[k]]
     ELSE content_lines(b.content, Spaces(level)))
    \o (IF b.properties = <<>> THEN <<>>
        ELSE <<format_block_properties(b.properties, Spaces(level + 1)).line>>)

RECURSIVE ClaimedListItems(_)
ClaimedListItems(entries) ==
    IF entries = <<>> THEN <<>>
    ELSE ClaimedListItem(Head(entries)[1], Head(entries)[2])
         \o ClaimedListItems(Tail(entries))

\* C17 (as claimed): a block whose content holds the code-fence marker and
\* has n lines, n >= 1, is written as exactly n lines, the content lines in
\* their order and each once: the first after the bullet at the block's
\* indent, every other one at the block's indent plus two spaces.
C17_FenceContentLineForLine ==
    bm_pc \in {"extract_properties", "done"} /\ bm_roots # <<>> =>
        \A d \in DOMAIN bm_documents :
            TreeLines(d) = ClaimedListItems(PreOrder(bm_roots, 0))

-----------------------------------------------------------------------------
(* Properties of repeated calls (SpecCalls) *)

\* C18: build_markdown called twice in a row on the same Page and the same
\* Block objects returns the same string both times, although the first
\* call has set the children fields of the objects; and page_to_markdown
\* called twice on the same batch returns the same string both times.
C18_SecondCallGivesTheSameOutput ==
    /\ bm_pc = "done" =>
          /\ Len(bm_documents) = 2
          /\ bm_documents[2] = bm_documents[1]
    /\ (pc = "returned" /\ first_output # <<>>) => output = first_output[1]

C18_Witness ==
    /\ bm_pc = "done"
    /\ \E i \in DOMAIN bm_blocks : Len(bm_blocks[i].children) = 2
    /\ \E i \in DOMAIN bm_blocks : bm_blocks[i].properties # <<>>
    /\ bm_documents[2] = bm_documents[1]

-----------------------------------------------------------------------------
(* Properties of clean_response's pages (Spec) *)

\* the positions of the records that are the first to name their page
FirstMentions(resp) ==
    {k \in DOMAIN resp :
        \A j \in 1..(k - 1) : resp[j].page.id # resp[k].page.id}

\* C19: clean_response returns one Page per distinct page id of the batch,
\* in the order of the first records that name the pages and not by id,
\* each with the name and originalName of that first record, whatever later
\* records of the page say.
C19_PagesByFirstMention ==
    entry = "clean_response" /\ pc = "returned" =>
        LET firsts == FirstMentions(response)
        IN  /\ Len(pages) = Cardinality(firsts)
            /\ \A k \in firsts :
                  LET i == Cardinality({j \in firsts : j <= k})
                  IN  /\ pages[i].id = response[k].page.id
                      /\ pages[i].name = response[k].page.name
                      /\ pages[i].original_name = response[k].page.originalName

C19_Witness ==
    /\ entry = "clean_response"
    /\ pc = "returned"
    /\ Len(response) = 3
    /\ [k \in DOMAIN response |-> response[k].page.id] = <<200, 100, 200>>
    /\ response[3].page.name # response[1].page.name
    /\ Len(pages) = 2

-----------------------------------------------------------------------------
(* Properties of request() (SpecRequest) *)

\* what post() did was a failure the wrapper retries
RetryableFailure(posted) ==
    \/ posted.type \in {"ConnectionError", "Timeout"}
    \/ posted.type = "Response" /\ posted.status \in {429, 500, 502, 503, 504}

\* the message says "(after n attempts)"
SaysAfterAttempts(message, n) ==
    \E k \in 1..(Len(message) - 2) :
        /\ message[k] = " (after "
        /\ message[k + 1] = ToString(n)
        /\ message[k + 2] = " attempts)"

\* C20: when every attempt fails with a connection error, a timeout or a
\* status of 429, 500, 502, 503 or 504, the wrapped call is made exactly
\* max_retries + 1 = 4 times, never a fifth time, and request() then ends
\* with an McpError whose message says "after 4 attempts".
C20_FourAttemptsThenError ==
    (api_key /\ \A k \in DOMAIN rq_posts : RetryableFailure(rq_posts[k])) =>
        /\ Len(rq_posts) <= 4
        /\ attempt = Len(rq_posts)
        /\ rq_pc # "returned"
        /\ rq_pc # "raised" => ENABLED RequestNext
        /\ rq_pc = "raised" =>
              /\ Len(rq_posts) = 4
              /\ rq_result.raised
              /\ rq_result.error.type = "McpError"
              /\ SaysAfterAttempts(rq_result.error.message, 4)

C20_Witness ==
    /\ rq_pc = "raised"
    /\ Len(rq_posts) = 4
    /\ rq_posts[1].type = "ConnectionError"
    /\ rq_posts[2].type = "Timeout"
    /\ rq_posts[3].status = 429
    /\ rq_posts[4].status = 503
    /\ SaysAfterAttempts(rq_result.error.message, 4)

\* C21: if the first k-1 attempts fail with failures the wrapper retries and
\* attempt k succeeds, for k from 1 to 4, request() returns the JSON body of
\* attempt k after exactly k attempts: nothing follows the success and no
\* error is raised.
C21_SuccessAtAttemptK ==
    LET k == Len(rq_posts)
    IN  (/\ api_key
         /\ k >= 1
         /\ \A j \in 1..(k - 1) : RetryableFailure(rq_posts[j])
         /\ rq_posts[k].type = "Response"
         /\ rq_posts[k].status = 200) =>
            /\ k <= 4
            /\ attempt = k
            /\ rq_pc = "returned"
            /\ rq_result = [raised |-> FALSE, value |-> <<"json", k>>]
            /\ Len(rq_sleeps) = k - 1
            /\ ~ENABLED RequestNext

C21_Witness ==
    /\ rq_pc = "returned"
    /\ Len(rq_posts) = 4
    /\ rq_posts[1].type = "Timeout"
    /\ rq_posts[2].status = 500
    /\ rq_posts[3].type = "ConnectionError"
    /\ rq_posts[4].status = 200
    /\ rq_result.value = <<"json", 4>>

\* the message holds the text as one of its parts
Says(message, text) == \E k \in DOMAIN message : message[k] = text

\* the answer is a client error that is not 429
PermanentClientError(posted) ==
    /\ posted.type = "Response"
    /\ 400 <= posted.status /\ posted.status <= 499
    /\ posted.status # 429

\* C22: a permanent client error is never retried: when the server answers
\* 401 or another 4xx status except 429, no attempt and no sleep follows, a
\* first answer of that kind makes the call end after exactly one attempt
\* without any sleep, and the call ends with an McpError that says "Invalid
\* API token" for 401 and "API request failed" for the others and carries no
\* "after N attempts" suffix.
C22_ClientErrorIsNotRetried ==
    LET k == Len(rq_posts)
    IN  (api_key /\ k >= 1 /\ PermanentClientError(rq_posts[k])) =>
            /\ rq_pc = "raised"
            /\ ~ENABLED RequestNext
            /\ attempt = k
            /\ Len(rq_sleeps) = k - 1
            /\ k = 1 => attempt = 1 /\ rq_sleeps = <<>>
            /\ rq_result.raised
            /\ rq_result.error.type = "McpError"
            /\ IF rq_posts[k].status = 401
               THEN Says(rq_result.error.message, "Invalid API token")
               ELSE Says(rq_result.error.message, "API request failed")
            /\ \A n \in 1..5 : ~SaysAfterAttempts(rq_result.error.message, n)
            /\ ~Says(rq_result.error.message, " attempts)")

C22_Witness ==
    /\ rq_pc = "raised"
    /\ Len(rq_posts) = 1
    /\ rq_posts[1].status = 404
    /\ rq_sleeps = <<>>
    /\ Says(rq_result.error.message, "API request failed")

\* C23 (as claimed): every answer with a status from 500 to 599 is taken
\* for a transient failure: as long as retries are left the call is
\* attempted again, and no error is reported before.
C23_EveryServerErrorIsRetried ==
    LET k == Len(rq_posts)
    IN  (/\ api_key
         /\ k >= 1
         /\ k <= DEFAULT_MAX_RETRIES
         /\ rq_posts[k].type = "Response"
         /\ rq_posts[k].status >= 500
         /\ rq_posts[k].status <= 599) =>
            /\ rq_pc # "raised"
            /\ ENABLED RequestNext

\* C24: the delay slept after the n-th failed attempt is base_delay *
\* backoff_factor^(n-1): 1 s after the first failure, 2 s after the second,
\* 4 s after the third; the delays of one call are strictly increasing.
C24_DelaysDouble ==
    /\ Len(rq_sleeps) <= attempt
    /\ rq_pc = "backoff" => Len(rq_sleeps) = attempt - 1
    /\ \A n \in DOMAIN rq_sleeps :
          /\ n = 1 => rq_sleeps[n] = 1
          /\ n = 2 => rq_sleeps[n] = 2
          /\ n = 3 => rq_sleeps[n] = 4
          /\ n > 1 => rq_sleeps[n] = 2 * rq_sleeps[n - 1]
          /\ n > 1 => rq_sleeps[n] > rq_sleeps[n - 1]

C24_Witness ==
    /\ rq_sleeps = <<1, 2, 4>>
    /\ Len(rq_posts) = 3
    /\ rq_pc = "while"

-----------------------------------------------------------------------------
(* More properties of one level (SpecLevel) *)

\* the first m of placed are the walk from the head: each next one is the
\* first candidate in input order, not placed before, whose left_id is the id
\* of the one before it, and no candidate left over continues the walk
IsMaximalWalk(candidates, placed, m) ==
    LET before(j) == {placed[i].id : i \in 1..(j - 1)}
        follows(c, j) == c.id \notin before(j) /\ c.left_id = placed[j - 1].id
    IN  /\ \A j \in 2..m :
              /\ follows(placed[j], j)
              /\ \A k \in DOMAIN candidates :
                    (candidates[k].id # placed[j].id /\ follows(candidates[k], j))
                        => \E l \in 1..(k - 1) : candidates[l].id = placed[j].id
        /\ \A k \in DOMAIN candidates :
              ~follows(candidates[k], m + 1)

\* C25: the level is the longest run got by following left_id links from
\* the head, which is the first candidate in input order whose left_id is
\* the root id, and after it all candidates not placed, in input order;
\* without a head it is the candidates in input order.
C25_WalkThenRestInInputOrder ==
    lv_pc = "return" /\ children # <<>> =>
        LET heads == {k \in DOMAIN children : children[k].left_id = RootId}
        IN  IF heads = {} THEN sorted_children = children
            ELSE /\ \A k \in heads : \E l \in heads :
                       l <= k /\ sorted_children[1] = children[l]
                 /\ sorted_children[1].left_id = RootId
                 /\ \E m \in 1..Len(sorted_children) :
                       /\ IsMaximalWalk(children, sorted_children, m)
                       /\ SubSeq(sorted_children, m + 1, Len(sorted_children))
                          = SelectSeq(children,
                                LAMBDA c : \A i \in 1..m :
                                              sorted_children[i].id # c.id)

C25_Witness ==
    /\ lv_pc = "return"
    /\ Len(children) = 3
    /\ children[1].left_id = children[2].id
    /\ children[2].left_id = RootId
    /\ children[3].left_id = Dangling
    /\ Ids(sorted_children) = <<children[2].id, children[1].id, children[3].id>>


\* C26: a call with topics asks the tag query first; the full-text query is
\* the second query and is made only after the tag query answered the empty
\* string; there are at most two queries, and what the call returns is the
\* answer to the last query it made
C26_TagQueryThenFullText ==
    topics # <<>> =>
        /\ Len(gp_queries) <= 2
        /\ gp_queries # <<>> =>
              gp_queries[1].query = tag_query(topics, from_date, to_date)
        /\ Len(gp_queries) = 2 =>
              /\ gp_queries[2].query = full_text_query(topics, from_date, to_date)
              /\ ~gp_queries[1].outcome.raised
              /\ gp_queries[1].outcome.value = EmptyString
        /\ gp_pc = "returned" =>
              /\ gp_queries # <<>>
              /\ gp_result = gp_queries[Len(gp_queries)].outcome
              /\ (Len(gp_queries) = 1 => gp_result.value # EmptyString)

C26_Witness ==
    /\ gp_pc = "returned"
    /\ Len(topics) = 2
    /\ Len(gp_queries) = 2
    /\ gp_result = Return(FoundByText)
    /\ Truthy(from_date)


\* C27: reorganize_blocks returns, within a call depth of the number of
\* blocks plus one, for every block mapping and root id that clean_response
\* can hand to it, a block with id == parent_id == page id included
C27_ReorganizeReturnsWithinDepth ==
    \A i \in DOMAIN pages : ~reorganize_blocks(blocks, pages[i].id).raised


-----------------------------------------------------------------------------
(* Completeness of the rendered tree (Spec) *)

\* the chain of parent_id links that starts at id reaches the page id through
\* blocks of blks
RECURSIVE LeadsToPage(_, _, _, _)
LeadsToPage(blks, id, page_id, fuel) ==
    IF id = page_id THEN TRUE
    ELSE IF fuel = 0 \/ id \notin Range(Ids(blks)) THEN FALSE
    ELSE LET k == CHOOSE k \in DOMAIN blks : blks[k].id = id
         IN  LeadsToPage(blks, blks[k].parent_id, page_id, fuel - 1)

\* the blocks of one page, in the order of the mapping
BlocksOfPage(page_id) == SelectSeq(blocks, LAMBDA b : b.page_id = page_id)

\* the blocks of one page the property predicate does not match
PlainBlocksOfPage(page_id) ==
    SelectSeq(BlocksOfPage(page_id), LAMBDA b : ~default_property_filter(b))

\* C28: every block the property predicate does not match and whose chain of
\* parent_id links leads, through blocks of its page, to the page id is
\* written exactly once in the document of its page, the blocks below a
\* page-property block included
C28_EveryRootedBlockAppearsOnce ==
    Converted =>
        \A i \in DOMAIN DocPages :
            LET mine == BlocksOfPage(DocPages[i].id)
            IN  \A k \in DOMAIN mine :
                    /\ ~default_property_filter(mine[k])
                    /\ LeadsToPage(mine, mine[k].parent_id, DocPages[i].id, Len(mine))
                    => Cardinality(MentionsOf(Docs[i], mine[k])) = 1

\* what does hold: the blocks whose chain reaches the page id without passing
\* through a page-property block are written exactly once
RootedOutsidePropertyBlocksAppearOnce ==
    Converted =>
        \A i \in DOMAIN DocPages :
            LET plain == PlainBlocksOfPage(DocPages[i].id)
            IN  \A k \in DOMAIN plain :
                    LeadsToPage(plain, plain[k].parent_id, DocPages[i].id, Len(plain))
                    => Cardinality(MentionsOf(Docs[i], plain[k])) = 1


-----------------------------------------------------------------------------
(* Sleeps of request (SpecRequest) *)

\* C29: when request has returned or raised, it has slept once between each
\* two attempts and not after the last one: the number of sleeps is the
\* number of attempts minus one
C29_SleepsOnlyBetweenAttempts ==
    rq_pc \in {"returned", "raised"} => Len(rq_sleeps) = attempt - 1


-----------------------------------------------------------------------------
(* One page at a time and several pages at once (Spec) *)

\* the records of one page, in the order of the batch
RecordsOfPage(resp, page_id) == SelectSeq(resp, LAMBDA r : r.page.id = page_id)

\* what page_to_markdown returns for the records of each page of the batch,
\* the pages taken in the order of sorted_pages
PerPage ==
    [i \in DOMAIN sorted_pages |->
        page_to_markdown(RecordsOfPage(response, sorted_pages[i].id))]

PageMachineAgreesWithFunction ==
    entry = "page_to_markdown" /\ pc \in {"returned", "raised"} =>
        LET r == page_to_markdown(response)
        IN  /\ r.raised <=> pc = "raised"
            /\ ~r.raised => output = r.value

====
